---- MODULE Spec2Model ----
(***************************************************************************)
(* Model of nl2sql.py: DatabaseManager (schema introspection and SQL       *)
(* execution over one sqlite3 connection) and SQLGenerator.generate_sql,   *)
(* the generate / execute / repair loop around an external generator.      *)
(*                                                                         *)
(* Text is a sequence of characters.  One character is a one-character     *)
(* string; the body of an SQL statement, which the adapter's stripping     *)
(* never looks into, is carried as one atomic element.                     *)
(*                                                                         *)
(* db is the DatabaseManager (connection open or closed, tables in         *)
(* sqlite_master order, rows added to users); pc is the position inside    *)
(* generate_sql;                                                           *)
(* retry_count, last_error and sql are its locals and result the dict it   *)
(* returns.  trail is the history of the attempts of the call in progress  *)
(* (prompt sent, text returned, outcome of the execution) and out the      *)
(* lines the call has printed; both start afresh with every call.          *)
(* content is message.content inside _generate_with_openai, between the    *)
(* completion and the return; the steps of generate_sql never see it.      *)
(***************************************************************************)
EXTENDS Integers, Sequences, FiniteSets, TLC

VARIABLES db, pc, callsMade, question, max_retries, retry_count, last_error,
          sql, result, trail, out, content

vars == <<db, pc, callsMade, question, max_retries, retry_count, last_error,
          sql, result, trail, out, content>>

(* ------------------------------ bounds --------------------------------- *)

\* largest max_retries a caller passes besides the default
MaxRetries == 4
\* callers pass max_retries down to -NegRetries
NegRetries == 2
\* number of questions the caller submits, one after another
MaxCalls == 2

(* --------------------------- program constants ------------------------- *)

DefaultMaxRetries == 3

\* Python's None, for an Optional[str] or an absent value
None == "<None>"

\* None where a (columns, rows) pair is expected
NoResults == <<None>>

\* str(e) of sqlite3.ProgrammingError raised by any use of a closed connection
ClosedMsg == "Cannot operate on a closed database."

\* str(e) of sqlite3.OperationalError for text that is no statement
SyntaxErrorMsg == "near \"...\": syntax error"

(* --------------------------- text operations --------------------------- *)

IsSpace(c) == c \in {" ", "\n", "\t"}

RECURSIVE LStrip(_)
LStrip(s) == IF s # <<>> /\ IsSpace(Head(s)) THEN LStrip(Tail(s)) ELSE s

RECURSIVE RStrip(_)
RStrip(s) == IF s # <<>> /\ IsSpace(s[Len(s)])
             THEN RStrip(SubSeq(s, 1, Len(s) - 1)) ELSE s

\* str.strip()
Strip(s) == RStrip(LStrip(s))

\* str.startswith(p)
StartsWith(s, p) == Len(s) >= Len(p) /\ SubSeq(s, 1, Len(p)) = p

\* the backquote character, U+0060, which a TLA+ string cannot hold
Tick == "BQ"

\* the prefixes of the stripping loop, in its order
Fence == <<Tick, Tick, Tick>>
FenceSql == <<Tick, Tick, Tick, "s", "q", "l">>

\* s.split(fence)[0]: the text before the first fence, all of s if there is none
SplitFirst(s) ==
    LET hits == {i \in 1..Len(s) : StartsWith(SubSeq(s, i, Len(s)), Fence)}
    IN  IF hits = {} THEN s
        ELSE SubSeq(s, 1, (CHOOSE i \in hits : \A j \in hits : i <= j) - 1)

\* a pass that forgets the strip() after the split
StripPrefix_NoInnerStrip(s, prefix) ==
    IF StartsWith(s, prefix)
    THEN SplitFirst(SubSeq(s, Len(prefix) + 1, Len(s)))
    ELSE s

\* one pass of the loop body over the prefixes
StripPrefix(s, prefix) ==
    IF StartsWith(s, prefix)
    THEN Strip(SplitFirst(SubSeq(s, Len(prefix) + 1, Len(s))))
    ELSE s

\* the adapter: content.strip(), then the loop over the two fence prefixes
StripDecoration(raw) == StripPrefix(StripPrefix(Strip(raw), FenceSql), Fence)

(* ------------------------------ the store ------------------------------ *)

SelUsers == "SELECT * FROM users"
SelMissing == "SELECT * FROM nonexistent"
CreateAudit == "CREATE TABLE audit (id INTEGER)"
InsertUser == "INSERT INTO users (user_name) VALUES ('Eve')"

ProductsTable ==
    [table |-> "products",
     columns |-> <<"product_id", "product_name", "city", "sale_date", "quantity", "price">>,
     types |-> <<"INTEGER", "TEXT", "TEXT", "DATE", "INTEGER", "DECIMAL(10,2)">>]
UsersTable ==
    [table |-> "users",
     columns |-> <<"user_id", "user_name", "email", "registration_date">>,
     types |-> <<"INTEGER", "TEXT", "TEXT", "DATE">>]
PurchasesTable ==
    [table |-> "purchases",
     columns |-> <<"purchase_id", "user_id", "product_id", "purchase_date", "quantity">>,
     types |-> <<"INTEGER", "INTEGER", "INTEGER", "DATE", "INTEGER">>]
AuditTable ==
    [table |-> "audit", columns |-> <<"id">>, types |-> <<"INTEGER">>]

\* rows of users, as _setup_database inserts them
UsersRows ==
    << <<1, "John Doe", "john@example.com", "2023-01-15">>,
       <<2, "Jane Smith", "jane@example.com", "2023-02-20">>,
       <<3, "Bob Johnson", "bob@example.com", "2023-03-10">> >>

\* the store after DatabaseManager.__init__; inserted counts the rows added
\* to users since
SetupDatabase ==
    [open |-> TRUE, schema |-> <<ProductsTable, UsersTable, PurchasesTable>>,
     inserted |-> 0]

\* the i-th row added by InsertUser: the next user_id, NULL for what is not given
InsertedRow(i) == <<Len(UsersRows) + i, "Eve", None, None>>

\* the rows of users now
UsersRowsOf(d) == UsersRows \o [i \in 1..d.inserted |-> InsertedRow(i)]

HasTable(d, name) == \E i \in 1..Len(d.schema) : d.schema[i].table = name

\* get_schema() on an open connection
GetSchema(d) == d.schema

\* the schema_info the prompt is built from: table names and column names
SchemaInfo(schema) ==
    [i \in 1..Len(schema) |-> <<schema[i].table, schema[i].columns>>]

\* an executor that works on a connection of its own and drops it: nothing
\* a statement changes is kept
Engine_Discards(d, text) ==
    LET ok(cols, rows, d2) ==
            [raised |-> FALSE, columns |-> cols, rows |-> rows, error |-> None, db |-> d2]
        fail(msg) ==
            [raised |-> TRUE, columns |-> <<>>, rows |-> <<>>, error |-> msg, db |-> d]
    IN  IF text = <<>> THEN ok(<<>>, <<>>, d)
        ELSE IF text = <<SelUsers>> THEN
            IF HasTable(d, "users") THEN ok(UsersTable.columns, UsersRowsOf(d), d)
            ELSE fail("no such table: users")
        ELSE IF text = <<SelMissing>> THEN fail("no such table: nonexistent")
        ELSE IF text = <<CreateAudit>> THEN
            IF HasTable(d, "audit") THEN fail("table audit already exists")
            ELSE ok(<<>>, <<>>, d)
        ELSE IF text = <<InsertUser>> THEN
            IF HasTable(d, "users") THEN ok(<<>>, <<>>, d)
            ELSE fail("no such table: users")
        ELSE fail(SyntaxErrorMsg)

\* cursor.execute(sql); fetchall(); description -- on an open connection.
\* raised = TRUE stands for the exception sqlite3 raises, error for its str().
Engine(d, text) ==
    LET ok(cols, rows, d2) ==
            [raised |-> FALSE, columns |-> cols, rows |-> rows, error |-> None, db |-> d2]
        fail(msg) ==
            [raised |-> TRUE, columns |-> <<>>, rows |-> <<>>, error |-> msg, db |-> d]
    IN  IF text = <<>> THEN ok(<<>>, <<>>, d)
        ELSE IF text = <<SelUsers>> THEN
            IF HasTable(d, "users") THEN ok(UsersTable.columns, UsersRowsOf(d), d)
            ELSE fail("no such table: users")
        ELSE IF text = <<SelMissing>> THEN fail("no such table: nonexistent")
        ELSE IF text = <<CreateAudit>> THEN
            IF HasTable(d, "audit") THEN fail("table audit already exists")
            ELSE ok(<<>>, <<>>, [d EXCEPT !.schema = Append(@, AuditTable)])
        ELSE IF text = <<InsertUser>> THEN
            IF HasTable(d, "users") THEN ok(<<>>, <<>>, [d EXCEPT !.inserted = @ + 1])
            ELSE fail("no such table: users")
        ELSE fail(SyntaxErrorMsg)

\* an except clause for sqlite3.ProgrammingError only: the engine's
\* OperationalError goes on to the caller
ExecuteSql_NarrowExcept(d, text) ==
    IF ~d.open
    THEN [raised |-> FALSE, success |-> FALSE, results |-> NoResults,
          error |-> ClosedMsg, db |-> d]
    ELSE LET r == Engine(d, text)
         IN  IF r.raised
             THEN [raised |-> TRUE, success |-> FALSE, results |-> NoResults,
                   error |-> r.error, db |-> r.db]
             ELSE [raised |-> FALSE, success |-> TRUE, results |-> <<r.columns, r.rows>>,
                   error |-> None, db |-> r.db]

\* DatabaseManager.execute_sql: (success, results, error) and the store after;
\* raised tells whether the call ended in an exception instead of a return
ExecuteSql(d, text) ==
    IF ~d.open
    THEN [raised |-> FALSE, success |-> FALSE, results |-> NoResults,
          error |-> ClosedMsg, db |-> d]
    ELSE LET r == Engine(d, text)
         IN  IF r.raised
             THEN [raised |-> FALSE, success |-> FALSE, results |-> NoResults,
                   error |-> r.error, db |-> r.db]
             ELSE [raised |-> FALSE, success |-> TRUE, results |-> <<r.columns, r.rows>>,
                   error |-> None, db |-> r.db]

(* ----------------------------- the generator --------------------------- *)

\* what the chat completion may answer: message.content, before the adapter
RawResponses ==
    { <<SelUsers>>,
      <<SelMissing>>,
      <<CreateAudit>>,
      <<InsertUser>>,
      <<>>,
      <<" ", "\n">>,
      <<Tick, Tick, Tick, "s", "q", "l", "\n", SelUsers, "\n", Tick, Tick, Tick>>,
      <<Tick, Tick, Tick, "\n", SelMissing, "\n", Tick, Tick, Tick>> }

\* str(e) of what the client call may raise; an exception built without
\* arguments has the empty message
GeneratorErrors == {"Connection error.", ""}

\* the questions of the caller, submitted in this order, over and over
Questions == <<"List users who spent more than 1000 in Bangalore", "How many users are there">>

\* the values of max_retries callers pass
RetryChoices == ((0 - NegRetries)..MaxRetries) \cup {DefaultMaxRetries}

\* truth value of an Optional[str] in a condition
Truthy(s) == s # None /\ s # ""

\* a repair template that leaves the schema out
BuildPrompt_RepairWithoutSchema(q, is_retry, err, schema) ==
    IF is_retry /\ Truthy(err)
    THEN [contract |-> "repair", error |-> err, question |-> q,
          schema_info |-> <<>>]
    ELSE [contract |-> "first", error |-> None, question |-> q,
          schema_info |-> SchemaInfo(schema)]

\* a prompt builder without the first-attempt branch
BuildPrompt_AlwaysRepair(q, is_retry, err, schema) ==
    [contract |-> "repair", error |-> err, question |-> q,
     schema_info |-> SchemaInfo(schema)]

\* the prompt _generate_with_openai builds: which of the two templates, and
\* the values interpolated into it
BuildPrompt(q, is_retry, err, schema) ==
    IF is_retry /\ Truthy(err)
    THEN [contract |-> "repair", error |-> err, question |-> q,
          schema_info |-> SchemaInfo(schema)]
    ELSE [contract |-> "first", error |-> None, question |-> q,
          schema_info |-> SchemaInfo(schema)]

(* ------------------------------ generate_sql --------------------------- *)

\* sql before its first assignment in a call
Unbound == <<"<unbound>">>

\* result before the call returns
Pending == [pending |-> TRUE]

\* no prompt was built: get_schema raised before the template was filled
NoPrompt == [contract |-> None]

Init ==
    /\ db = SetupDatabase
    /\ pc = "idle"
    /\ callsMade = 0
    /\ question = None
    /\ max_retries = DefaultMaxRetries
    /\ retry_count = 0
    /\ last_error = None
    /\ sql = Unbound
    /\ result = Pending
    /\ trail = <<>>
    /\ out = <<>>
    /\ content = Unbound

\* a call whose counter and error live on the SQLGenerator and are not reset
Call_KeepsState(n) ==
    /\ pc \in {"idle", "done"}
    /\ callsMade < MaxCalls
    /\ callsMade' = callsMade + 1
    /\ question' = Questions[(callsMade % Len(Questions)) + 1]
    /\ max_retries' = n
    /\ retry_count' = retry_count
    /\ last_error' = last_error
    /\ sql' = Unbound
    /\ result' = Pending
    /\ trail' = <<>>
    /\ out' = <<>>
    /\ pc' = "loop"
    /\ UNCHANGED db
    /\ UNCHANGED content

\* main's loop body: generator.generate_sql(question[, max_retries]); the
\* locals of the call are set up, the trail and the output of this call start
Call(n) ==
    /\ pc \in {"idle", "done"}
    /\ callsMade < MaxCalls
    /\ callsMade' = callsMade + 1
    /\ question' = Questions[(callsMade % Len(Questions)) + 1]
    /\ max_retries' = n
    /\ retry_count' = 0
    /\ last_error' = None
    /\ sql' = Unbound
    /\ result' = Pending
    /\ trail' = <<>>
    /\ out' = <<>>
    /\ pc' = "loop"
    /\ UNCHANGED db
    /\ UNCHANGED content

\* a loop that stops one attempt early
LoopCondition_Strict == retry_count < max_retries

\* the condition of the while loop
LoopCondition == retry_count <= max_retries

\* the condition holds: the body is entered
LoopEnter ==
    /\ pc = "loop"
    /\ LoopCondition
    /\ pc' = "gen"
    /\ UNCHANGED <<db, callsMade, question, max_retries, retry_count, last_error,
                   sql, result, trail, out>>
    /\ UNCHANGED content

\* a failure dict that counts one attempt too many
ReturnFailure_OffByOne ==
    /\ pc = "loop"
    /\ ~LoopCondition
    /\ result' = [success |-> FALSE, error |-> last_error, attempts |-> retry_count + 1]
    /\ pc' = "done"
    /\ UNCHANGED <<db, callsMade, question, max_retries, retry_count, last_error,
                   sql, trail, out>>
    /\ UNCHANGED content

\* the loop condition fails: the failure dict is returned
ReturnFailure ==
    /\ pc = "loop"
    /\ ~LoopCondition
    /\ result' = [success |-> FALSE, error |-> last_error, attempts |-> retry_count]
    /\ pc' = "done"
    /\ UNCHANGED <<db, callsMade, question, max_retries, retry_count, last_error,
                   sql, trail, out>>
    /\ UNCHANGED content

\* a handler that lets the exception go on to the caller
ExceptHandler_Reraise(msg) ==
    /\ last_error' = msg
    /\ out' = Append(out, [kind |-> "generation_error", text |-> msg])
    /\ retry_count' = retry_count
    /\ pc' = "raised"

\* a handler that counts the attempt but forgets the message
ExceptHandler_DropsMessage(msg) ==
    /\ last_error' = last_error
    /\ out' = Append(out, [kind |-> "generation_error", text |-> msg])
    /\ retry_count' = retry_count + 1
    /\ pc' = "loop"

\* a handler that does not count the failed attempt
ExceptHandler_NoCount(msg) ==
    /\ last_error' = msg
    /\ out' = Append(out, [kind |-> "generation_error", text |-> msg])
    /\ retry_count' = retry_count
    /\ pc' = "loop"

\* except Exception as e: in generate_sql
ExceptHandler(msg) ==
    /\ last_error' = msg
    /\ out' = Append(out, [kind |-> "generation_error", text |-> msg])
    /\ retry_count' = retry_count + 1
    /\ pc' = "loop"

\* _generate_with_openai: get_schema raises on the closed connection, before
\* any prompt is built or sent
GenSchemaFault ==
    /\ pc = "gen"
    /\ ~db.open
    /\ ExceptHandler(ClosedMsg)
    /\ trail' = Append(trail, [n |-> retry_count + 1, prompt |-> NoPrompt,
                               gen |-> "schema_fault", sql |-> Unbound,
                               exec |-> "not_run", results |-> NoResults,
                               error |-> ClosedMsg])
    /\ UNCHANGED <<db, callsMade, question, max_retries, sql, result>>
    /\ UNCHANGED content

\* _generate_with_openai: the prompt is sent and the client call raises
GenRaises(msg) ==
    /\ pc = "gen"
    /\ db.open
    /\ ExceptHandler(msg)
    /\ trail' = Append(trail,
           [n |-> retry_count + 1,
            prompt |-> BuildPrompt(question, retry_count > 0, last_error, GetSchema(db)),
            gen |-> "raised", sql |-> Unbound,
            exec |-> "not_run", results |-> NoResults, error |-> msg])
    /\ UNCHANGED <<db, callsMade, question, max_retries, sql, result>>
    /\ UNCHANGED content

\* a generation step without the print of the attempt
GenReturns_Silent(raw) ==
    /\ pc = "gen"
    /\ db.open
    /\ sql' = StripDecoration(raw)
    /\ out' = out
    /\ trail' = Append(trail,
           [n |-> retry_count + 1,
            prompt |-> BuildPrompt(question, retry_count > 0, last_error, GetSchema(db)),
            gen |-> "returned", sql |-> sql',
            exec |-> "pending", results |-> NoResults, error |-> None])
    /\ pc' = "exec"
    /\ UNCHANGED <<db, callsMade, question, max_retries, retry_count, last_error, result>>
    /\ UNCHANGED content

\* _generate_with_openai returns: sql is the stripped answer, and is printed
GenReturns(raw) ==
    /\ pc = "gen"
    /\ db.open
    /\ sql' = StripDecoration(raw)
    /\ out' = Append(out, [kind |-> "attempt", n |-> retry_count + 1, text |-> sql'])
    /\ trail' = Append(trail,
           [n |-> retry_count + 1,
            prompt |-> BuildPrompt(question, retry_count > 0, last_error, GetSchema(db)),
            gen |-> "returned", sql |-> sql',
            exec |-> "pending", results |-> NoResults, error |-> None])
    /\ pc' = "exec"
    /\ UNCHANGED <<db, callsMade, question, max_retries, retry_count, last_error, result>>
    /\ UNCHANGED content

\* a success dict that carries the SQL of the first attempt
ExecSuccess_Stale ==
    /\ pc = "exec"
    /\ LET r == ExecuteSql(db, sql)
       IN  /\ r.success
           /\ db' = r.db
           /\ result' = [success |-> TRUE, sql |-> trail[1].sql, results |-> r.results,
                         attempts |-> retry_count + 1]
           /\ trail' = [trail EXCEPT ![Len(trail)].exec = "success",
                                     ![Len(trail)].results = r.results]
    /\ pc' = "done"
    /\ UNCHANGED <<callsMade, question, max_retries, retry_count, last_error, sql, out>>
    /\ UNCHANGED content

\* a success branch that falls through to the next iteration
ExecSuccess_NoReturn ==
    /\ pc = "exec"
    /\ LET r == ExecuteSql(db, sql)
       IN  /\ r.success
           /\ db' = r.db
           /\ trail' = [trail EXCEPT ![Len(trail)].exec = "success",
                                     ![Len(trail)].results = r.results]
    /\ retry_count' = retry_count + 1
    /\ pc' = "loop"
    /\ UNCHANGED <<callsMade, question, max_retries, last_error, sql, result, out>>
    /\ UNCHANGED content

\* db.execute_sql(sql) succeeds: the success dict is returned
ExecSuccess ==
    /\ pc = "exec"
    /\ LET r == ExecuteSql(db, sql)
       IN  /\ r.success
           /\ db' = r.db
           /\ result' = [success |-> TRUE, sql |-> sql, results |-> r.results,
                         attempts |-> retry_count + 1]
           /\ trail' = [trail EXCEPT ![Len(trail)].exec = "success",
                                     ![Len(trail)].results = r.results]
    /\ pc' = "done"
    /\ UNCHANGED <<callsMade, question, max_retries, retry_count, last_error, sql, out>>
    /\ UNCHANGED content

\* an error branch that keeps the first error it saw
ExecFailure_KeepsFirstError ==
    /\ pc = "exec"
    /\ LET r == ExecuteSql(db, sql)
       IN  /\ ~r.success
           /\ db' = r.db
           /\ last_error' = IF last_error = None THEN r.error ELSE last_error
           /\ out' = Append(out, [kind |-> "execution_error", text |-> r.error])
           /\ trail' = [trail EXCEPT ![Len(trail)].exec = "failure",
                                     ![Len(trail)].error = r.error]
    /\ retry_count' = retry_count + 1
    /\ pc' = "loop"
    /\ UNCHANGED <<callsMade, question, max_retries, sql, result>>
    /\ UNCHANGED content

\* db.execute_sql(sql) reports an error: it becomes last_error
ExecFailure ==
    /\ pc = "exec"
    /\ LET r == ExecuteSql(db, sql)
       IN  /\ ~r.success
           /\ db' = r.db
           /\ last_error' = r.error
           /\ out' = Append(out, [kind |-> "execution_error", text |-> r.error])
           /\ trail' = [trail EXCEPT ![Len(trail)].exec = "failure",
                                     ![Len(trail)].error = r.error]
    /\ retry_count' = retry_count + 1
    /\ pc' = "loop"
    /\ UNCHANGED <<callsMade, question, max_retries, sql, result>>
    /\ UNCHANGED content

\* db.conn.close(), by the caller between two calls
Close ==
    /\ pc \in {"idle", "done"}
    /\ db.open
    /\ db' = [db EXCEPT !.open = FALSE]
    /\ UNCHANGED <<pc, callsMade, question, max_retries, retry_count, last_error,
                   sql, result, trail, out>>
    /\ UNCHANGED content

(* ------------------------ the adapter, step by step -------------------- *)

Sel1 == "SELECT 1;"

\* language tags after the opening fence: none, sql, and two others
FenceTags == { <<>>, <<"s", "q", "l">>, <<"s", "q", "l", "i", "t", "e">>, <<"S", "Q", "L">> }

\* what stands between the opener and the SQL text
FenceSeps == { <<>>, <<"\n">>, <<" ">> }

FenceBodies == {Sel1, SelUsers, SelMissing}

\* the closing fence, on the same line or the next, with or without a final newline
FenceClosers == { Fence, <<"\n">> \o Fence, <<"\n">> \o Fence \o <<"\n">> }

\* a response that is a fenced block: opener, tag, SQL text, closer
Fenced(tag, sep, body, closer) == Fence \o tag \o sep \o <<body>> \o closer

FencedResponses ==
    { Fenced(tag, sep, body, closer) :
        tag \in FenceTags, sep \in FenceSeps, body \in FenceBodies, closer \in FenceClosers }

\* the variables the adapter does not touch
callVars == <<db, callsMade, question, max_retries, retry_count, last_error,
              result, trail, out>>

\* one completion has answered with a fenced block
AdapterInit ==
    /\ db = SetupDatabase
    /\ pc = "adapter"
    /\ callsMade = 1
    /\ question = Questions[1]
    /\ max_retries = DefaultMaxRetries
    /\ retry_count = 0
    /\ last_error = None
    /\ sql = Unbound
    /\ result = Pending
    /\ trail = <<>>
    /\ out = <<>>
    /\ content \in FencedResponses

\* sql = response.choices[0].message.content.strip()
AdapterStrip ==
    /\ pc = "adapter"
    /\ sql' = Strip(content)
    /\ pc' = "prefix_sql"
    /\ UNCHANGED <<callVars, content>>

\* the first pass of the for loop, over the fence with the sql tag
AdapterPrefixSql ==
    /\ pc = "prefix_sql"
    /\ sql' = StripPrefix(sql, FenceSql)
    /\ pc' = "prefix_bare"
    /\ UNCHANGED <<callVars, content>>

\* the second pass, over the bare fence; return sql
AdapterPrefixBare ==
    /\ pc = "prefix_bare"
    /\ sql' = StripPrefix(sql, Fence)
    /\ pc' = "adapted"
    /\ UNCHANGED <<callVars, content>>

AdapterNext == AdapterStrip \/ AdapterPrefixSql \/ AdapterPrefixBare

AdapterSpec == AdapterInit /\ [][AdapterNext]_vars

(* ------------------------- reading the trail -------------------------- *)

InCall == pc \in {"loop", "gen", "exec"}
Returned == pc = "done"

Last(t) == t[Len(t)]

\* the attempts whose execution succeeded
Successes == {i \in 1..Len(trail) : trail[i].exec = "success"}

\* the attempts for which the generator was invoked with a prompt
Prompted == {i \in 1..Len(trail) : trail[i].prompt # NoPrompt}

\* the attempts in which the closed connection surfaced
StoreFaults == {i \in 1..Len(trail) : trail[i].error = ClosedMsg}

\* the lines of out that name an attempt
IsAttemptLine(l) == l.kind = "attempt"

\* what the attempts of a trail print, in order: the attempt with its index
\* and SQL text and, after a failed execution, the error; for a failed
\* generation the error alone
RECURSIVE Printed(_)
Printed(t) ==
    IF t = <<>> THEN <<>>
    ELSE LET a == Last(t)
             lines ==
                 IF a.gen = "returned"
                 THEN <<[kind |-> "attempt", n |-> a.n, text |-> a.sql]>>
                      \o (IF a.exec = "failure"
                          THEN <<[kind |-> "execution_error", text |-> a.error]>>
                          ELSE <<>>)
                 ELSE <<[kind |-> "generation_error", text |-> a.error]>>
         IN  Printed(SubSeq(t, 1, Len(t) - 1)) \o lines

\* the attempts in which execute_sql was called
Executed == {i \in 1..Len(trail) : trail[i].exec # "not_run"}

\* the steps of a call in progress
Step ==
    \/ LoopEnter
    \/ ReturnFailure
    \/ GenSchemaFault
    \/ \E msg \in GeneratorErrors : GenRaises(msg)
    \/ \E raw \in RawResponses : GenReturns(raw)
    \/ ExecSuccess
    \/ ExecFailure

Next ==
    \/ \E n \in RetryChoices : Call(n)
    \/ Close
    \/ Step

Spec == Init /\ [][Next]_vars

\* generator and executor calls are blocking and return: a call in progress
\* always takes its next step
FairSpec == Spec /\ WF_vars(Step)

(* -------------------------------- claims ------------------------------- *)

\* C1: a call with max_retries = N (N + 1 a count of attempts, so N >= -1) in
\* which no attempt succeeds terminates, and it returns the failure dict
\* after exactly N + 1 attempts, with 'attempts' = N + 1.
C1_ExhaustsAfterNPlusOne ==
    /\ InCall ~> Returned
    /\ [](Returned /\ Successes = {} /\ max_retries + 1 >= 0
            => /\ ~result.success
               /\ result.attempts = max_retries + 1
               /\ Len(trail) = max_retries + 1)

\* the default budget is used up: four failed attempts
C1_Witness ==
    /\ Returned
    /\ max_retries = DefaultMaxRetries
    /\ ~result.success
    /\ Len(trail) = 4
    /\ result.attempts = 4

\* C2 as stated: every returned result, for every max_retries including the
\* negative ones, reports 1 <= attempts <= max_retries + 1.
C2_Original ==
    Returned => 1 <= result.attempts /\ result.attempts <= max_retries + 1

\* C2 amended: for max_retries >= 0 every returned result reports
\* 1 <= attempts <= max_retries + 1; for max_retries < 0 the loop body never
\* runs and the failure dict reports attempts = 0 with no error.
C2_AttemptBounds ==
    Returned =>
        IF max_retries >= 0
        THEN 1 <= result.attempts /\ result.attempts <= max_retries + 1
        ELSE /\ ~result.success
             /\ result.attempts = 0
             /\ result.error = None
             /\ trail = <<>>

\* a negative budget: no attempt is made
C2_Witness ==
    /\ Returned
    /\ max_retries < 0
    /\ result.attempts = 0

\* C3: a success dict carries the SQL the generator returned in the last
\* attempt, which is the one the executor ran successfully, the columns and
\* rows of that execution, and the 1-based index of that attempt; when the
\* last attempt k succeeded the call returns success with attempts = k.
C3_SuccessIsLastAttempt ==
    Returned =>
        /\ result.success =>
              /\ trail # <<>>
              /\ Last(trail).gen = "returned"
              /\ Last(trail).exec = "success"
              /\ result.sql = Last(trail).sql
              /\ result.results = Last(trail).results
              /\ result.attempts = Len(trail)
              /\ Last(trail).n = Len(trail)
              /\ result.attempts <= max_retries + 1
              /\ \A i \in 1..(Len(trail) - 1) : trail[i].exec # "success"
        /\ (trail # <<>> /\ Last(trail).exec = "success") => result.success

\* scenario A: the first attempt fails on the missing table, the second succeeds
C3_Witness ==
    /\ Returned
    /\ result.success
    /\ result.attempts = 2
    /\ trail[1].exec = "failure"
    /\ trail[1].sql # result.sql

\* C4 as stated: a fault of the backing store (the closed connection, in
\* get_schema or in execute_sql) aborts the loop at once: no retry is
\* consumed, no further generator or executor call follows, and the call does
\* not end as a returned Failed result.
C4_Original ==
    StoreFaults # {} =>
        /\ retry_count = 0
        /\ Len(trail) = 1
        /\ ~Returned

\* C5 as stated: an attempt whose generator text is empty after stripping is
\* a failed attempt that consumes a retry, and is never reported as a success.
C5_Original ==
    /\ \A i \in 1..Len(trail) :
          (trail[i].gen = "returned" /\ trail[i].sql = <<>> /\ trail[i].exec # "pending")
              => trail[i].exec = "failure" /\ retry_count >= i
    /\ (Returned /\ result.success) => result.sql # <<>>

\* C6 as stated: on every attempt after the first the generator is invoked
\* under the repair contract, and the prior error in its prompt is the error
\* message of the attempt just before, whatever that message is.
C6_Original ==
    \A i \in Prompted :
        i > 1 => /\ trail[i].prompt.contract = "repair"
                 /\ trail[i].prompt.error = trail[i - 1].error

\* C7: a failure dict returned after the retries are used up carries the
\* error message of the last attempt made, attempt max_retries + 1, unchanged,
\* and not the message of an earlier attempt.
C7_FailureCarriesLastError ==
    (Returned /\ ~result.success /\ trail # <<>>) =>
        /\ Len(trail) = max_retries + 1
        /\ Last(trail).n = max_retries + 1
        /\ result.error = Last(trail).error

\* retries used up with a last error that differs from the first
C7_Witness ==
    /\ Returned
    /\ ~result.success
    /\ Len(trail) >= 2
    /\ Last(trail).error # trail[1].error
    /\ result.error = Last(trail).error

\* C8: within one call every prompt sent to the generator is built from the
\* same schema description as the prompt of the first attempt.
C8_SameSchemaInEveryPrompt ==
    \A i \in Prompted :
        /\ 1 \in Prompted
        /\ trail[i].prompt.schema_info = trail[1].prompt.schema_info

\* a second call, after an earlier one created a table: three prompts, all
\* with the four-table schema
C8_Witness ==
    /\ callsMade = 2
    /\ Cardinality(Prompted) >= 3
    /\ Len(trail[3].prompt.schema_info) = 4
    /\ trail[3].prompt.contract = "repair"

\* C9: at most one attempt of a call has a successful execution and it is the
\* last one, after which the call has returned; a returned call is a success
\* exactly if it has that one successful attempt, so a failed call has none.
C9_SuccessIffOneLastSuccess ==
    /\ Cardinality(Successes) <= 1
    /\ \A i \in Successes : i = Len(trail) /\ Returned
    /\ Returned => (result.success <=> Cardinality(Successes) = 1)

\* two failed attempts, then the successful third and last one
C9_Witness ==
    /\ Returned
    /\ result.success
    /\ Len(trail) = 3
    /\ Successes = {3}

\* C10: no generator exception and no execution failure leaves generate_sql
\* as an exception: every call returns a dict, which carries the number of
\* attempts made and, if it is a failure, the last error.
C10_ErrorsReturnedAsData ==
    /\ [](pc \in {"idle", "loop", "gen", "exec", "done"})
    /\ [](InCall => <>Returned)
    /\ [](Returned =>
            /\ result.attempts = Len(trail)
            /\ ~result.success =>
                  /\ result.error = last_error
                  /\ trail # <<>> => result.error = Last(trail).error)

\* a call that met a generator exception and an execution failure and returned
C10_Witness ==
    /\ Returned
    /\ ~result.success
    /\ \E i \in 1..Len(trail) : trail[i].gen = "raised"
    /\ \E i \in 1..Len(trail) : trail[i].exec = "failure"


\* C11: an exception raised while the proposal is produced costs exactly one
\* attempt, as an execution failure does; the executor is not called in that
\* attempt; and the message of the exception is last_error, the error
\* argument the next attempt is given, which the next prompt shows as the
\* prior error whenever it is not empty.
C11_GeneratorFailureCountsOnce ==
    /\ [][(pc = "gen" /\ pc' = "loop") =>
            /\ retry_count' = retry_count + 1
            /\ Len(trail') = Len(trail) + 1
            /\ Last(trail').gen \in {"raised", "schema_fault"}
            /\ Last(trail').exec = "not_run"
            /\ last_error' = Last(trail').error
            /\ db' = db]_vars
    /\ [][(pc = "exec" /\ pc' = "loop") => retry_count' = retry_count + 1]_vars
    /\ [](\A i \in 1..Len(trail) :
            trail[i].gen # "returned" =>
                /\ trail[i].exec = "not_run"
                /\ trail[i].sql = Unbound
                /\ retry_count >= i
                /\ (i = Len(trail) => last_error = trail[i].error)
                /\ (i + 1 \in Prompted /\ trail[i].error # "") =>
                      /\ trail[i + 1].prompt.contract = "repair"
                      /\ trail[i + 1].prompt.error = trail[i].error)

\* the client raised on attempt 1 and its message is the prior error of attempt 2
C11_Witness ==
    /\ Len(trail) >= 2
    /\ trail[1].gen = "raised"
    /\ trail[1].error = "Connection error."
    /\ trail[2].prompt.error = "Connection error."
    /\ retry_count >= 1


\* C12 as stated: for every response that is a fenced block, with or without
\* a language tag, the adapter returns the inner SQL text alone: no backquote
\* and no character of the tag is left.
C12_Original ==
    pc = "adapted" =>
        \E body \in FenceBodies : sql = <<body>>

\* C12 amended: for every response that is a fenced block whose opener is the
\* bare fence or the fence with the tag sql, the adapter returns the inner SQL
\* text alone; with any other tag the backquotes are removed but characters of
\* the tag stay in front of the SQL text.  The result is what StripDecoration
\* computes in one go.
C12_StripsSqlAndBareFences ==
    pc = "adapted" =>
        /\ sql = StripDecoration(content)
        /\ \A i \in 1..Len(sql) : sql[i] # Tick
        /\ \A tag \in FenceTags, sep \in FenceSeps, body \in FenceBodies,
              closer \in FenceClosers :
              content = Fenced(tag, sep, body, closer) =>
                 IF tag \in {<<>>, <<"s", "q", "l">>}
                 THEN sql = <<body>>
                 ELSE /\ Len(sql) > 1
                      /\ Last(sql) = body
                      /\ sql[1] \in {"i", "S"}

\* the example of the specification: the sql-tagged block around SELECT 1;
C12_Witness ==
    /\ pc = "adapted"
    /\ content = <<Tick, Tick, Tick, "s", "q", "l", "\n", Sel1, "\n", Tick, Tick, Tick>>
    /\ sql = <<Sel1>>


\* C13: execute_sql never raises and returns one of two shapes: success with
\* a (columns, rows) pair and no error, or failure with no results and the
\* message of the engine, unchanged; never both and never neither.  Stated
\* for the store as it is in every reachable state, open and closed, and for
\* every text the adapter can hand over, and for the executions on the trail.
C13_ExecuteSqlTwoShapes ==
    /\ \A d \in {db, [db EXCEPT !.open = FALSE]}, raw \in RawResponses :
          LET text == StripDecoration(raw)
              r == ExecuteSql(d, text)
          IN  /\ ~r.raised
              /\ \/ /\ r.success
                    /\ Len(r.results) = 2
                    /\ r.error = None
                    /\ d.open /\ ~Engine(d, text).raised
                 \/ /\ ~r.success
                    /\ r.results = NoResults
                    /\ r.error # None
                    /\ r.error = IF d.open THEN Engine(d, text).error ELSE ClosedMsg
    /\ \A i \in 1..Len(trail) :
          /\ trail[i].exec = "success" =>
                Len(trail[i].results) = 2 /\ trail[i].error = None
          /\ trail[i].exec = "failure" =>
                trail[i].results = NoResults /\ trail[i].error # None

\* the engine rejects a second CREATE TABLE audit: failure shape, its message
C13_Witness ==
    /\ pc = "loop"
    /\ trail # <<>>
    /\ Last(trail).sql = <<CreateAudit>>
    /\ Last(trail).exec = "failure"
    /\ Last(trail).results = NoResults
    /\ Last(trail).error = "table audit already exists"


C15_FirstAttemptFirstContract ==
    /\ (pc = "gen" /\ trail = <<>>) => retry_count = 0 /\ last_error = None
    /\ \A i \in Prompted :
          /\ i = 1 => /\ trail[i].prompt.contract = "first"
                      /\ trail[i].prompt.error = None
          /\ trail[i].prompt.contract = "repair" =>
                /\ i > 1
                /\ trail[i].prompt.error # None
                /\ trail[i].prompt.error = trail[i - 1].error
          /\ trail[i].prompt.contract = "first" => trail[i].prompt.error = None

\* the second call: first-attempt contract on attempt 1, repair on attempt 2
C15_Witness ==
    /\ callsMade = 2
    /\ Len(trail) >= 2
    /\ trail[1].prompt.contract = "first"
    /\ trail[1].prompt.error = None
    /\ trail[2].prompt.contract = "repair"


\* C16: a mutating statement the generator proposes is executed as it is and
\* takes effect at once; the effect on data and on schema is seen by every
\* later get_schema and execute_sql on the same DatabaseManager, in later
\* attempts and later questions; and no step of executor or controller takes
\* it back, whether an attempt fails or the whole loop does.
C16_MutationsPersist ==
    /\ [][(pc = "exec" /\ pc' = "done" /\ sql = <<InsertUser>>) =>
             db'.inserted = db.inserted + 1]_vars
    /\ [][(pc = "exec" /\ pc' = "done" /\ sql = <<CreateAudit>>) =>
             ~HasTable(db, "audit") /\ HasTable(db', "audit")]_vars
    /\ [][/\ db'.inserted >= db.inserted
          /\ Len(db'.schema) >= Len(db.schema)
          /\ SubSeq(db'.schema, 1, Len(db.schema)) = db.schema
          /\ (pc' = "loop" \/ (pc' = "done" /\ ~result'.success)) =>
                (db'.inserted = db.inserted /\ db'.schema = db.schema)]_vars
    /\ [](InCall => \A i \in Prompted :
                       trail[i].prompt.schema_info = SchemaInfo(db.schema))
    /\ []((Returned /\ result.success /\ result.sql = <<SelUsers>>) =>
             result.results[2] = UsersRowsOf(db))
    /\ []((pc = "exec" /\ sql = <<CreateAudit>> /\ HasTable(db, "audit")) =>
             ExecuteSql(db, sql).error = "table audit already exists")

\* the second question reads users and sees the row the first one inserted
C16_Witness ==
    /\ callsMade = 2
    /\ Returned
    /\ result.success
    /\ result.sql = <<SelUsers>>
    /\ db.inserted = 1
    /\ Len(result.results[2]) = Len(UsersRows) + 1
    /\ Last(result.results[2]) = InsertedRow(1)


\* C17: in every call the executor is called at most once per attempt, only
\* after the generator call of that attempt returned, and with the text that
\* call returned; so there are never more executor calls than generator
\* calls (calls of _generate_with_openai, one per attempt), and the number of
\* generator calls is the attempt count the result reports.
C17_ExecutorOncePerAttempt ==
    /\ [](\A i \in Executed : trail[i].gen = "returned")
    /\ [](Cardinality(Executed) <= Len(trail))
    /\ [](pc = "exec" =>
            /\ trail # <<>>
            /\ Last(trail).gen = "returned"
            /\ Last(trail).exec = "pending"
            /\ sql = Last(trail).sql
            /\ Last(out) = [kind |-> "attempt", n |-> Len(trail), text |-> sql])
    /\ [][(pc # "exec" /\ pc' = "exec") =>
            /\ pc = "gen"
            /\ Len(trail') = Len(trail) + 1]_vars
    /\ [][(pc = "exec" /\ pc' # "exec") =>
            /\ Len(trail') = Len(trail)
            /\ Last(trail').exec \in {"success", "failure"}
            /\ Last(trail').sql = sql
            /\ \A i \in 1..(Len(trail) - 1) : trail'[i] = trail[i]]_vars
    /\ [](Returned => result.attempts = Len(trail))

\* three generator calls, the second of which raised: two executions
C17_Witness ==
    /\ Returned
    /\ Len(trail) = 3
    /\ trail[2].gen = "raised"
    /\ Executed = {1, 3}
    /\ result.attempts = 3


\* C18: nothing of the controller passes from one question to the next: a
\* call begins only when no other is in progress, at attempt 1 and with no
\* prior error, however the call before it ended; every prompt of a call
\* carries the question of that call, and a prior error in a prompt is the
\* error of the attempt before it in the same call.
C18_NoLeakBetweenQuestions ==
    /\ [][callsMade' # callsMade =>
            /\ pc \in {"idle", "done"}
            /\ callsMade' = callsMade + 1
            /\ pc' = "loop"
            /\ retry_count' = 0
            /\ last_error' = None
            /\ question' = Questions[(callsMade % Len(Questions)) + 1]]_vars
    /\ [][(InCall \/ InCall') => (callsMade' = callsMade <=> pc \notin {"idle", "done"})]_vars
    /\ [][question' # question => callsMade' # callsMade]_vars
    /\ [](\A i \in Prompted :
            /\ trail[i].prompt.question = question
            /\ i = 1 => trail[i].prompt.error = None
            /\ trail[i].prompt.error # None =>
                  i > 1 /\ trail[i].prompt.error = trail[i - 1].error)

\* the second question on its second attempt: its own question in both
\* prompts, no prior error in the first, its own first error in the second
C18_Witness ==
    /\ callsMade = 2
    /\ question = Questions[2]
    /\ Len(trail) >= 2
    /\ trail[1].prompt.question = Questions[2]
    /\ trail[1].prompt.error = None
    /\ trail[2].prompt.question = Questions[2]
    /\ trail[2].prompt.error = trail[1].error

====
